---- MODULE Spec2Model ----
(***************************************************************************)
(* CxxUtility: six wrappers over the C11 <stdatomic.h> operations on one   *)
(* `_Atomic long` cell (Sources/CxxUtility/CxxUtility.c).                  *)
(*                                                                         *)
(* A `long` (LP64: 64 bits) is kept at its full width.  TLC's integers are *)
(* 32 bits wide, so a long is a little-endian sequence of NLimbs limbs of  *)
(* 16 bits each, and the arithmetic of the hardware instruction is done    *)
(* limb by limb.                                                           *)
(***************************************************************************)
EXTENDS Integers, Sequences, FiniteSets, TLC

(* ----------------------------- bounds ---------------------------------- *)

\* number of threads sharing the cell
NThreads == 2

\* number of calls issued in one run, all threads together
MaxCalls == 3

\* number of fetch_add(cell, 1) calls each thread of the counter run issues
MaxIncrements == 3

(* --------------------------- the long type ----------------------------- *)

\* width of `long` on the LP64 targets of the package
LongBits == 64

LimbBase == 2^16

NLimbs == LongBits \div 16

Limbs == 1..NLimbs

\* the long with the small value i, -2^16 < i < 2^16, in two's complement
Long(i) ==
    [k \in Limbs |-> IF i >= 0 THEN (IF k = 1 THEN i ELSE 0)
                               ELSE (IF k = 1 THEN LimbBase + i ELSE LimbBase - 1)]

LONG_MAX == [k \in Limbs |-> IF k = NLimbs THEN (LimbBase \div 2) - 1 ELSE LimbBase - 1]

LONG_MIN == [k \in Limbs |-> IF k = NLimbs THEN LimbBase \div 2 ELSE 0]

\* carry into limb k of the sum a + b
RECURSIVE CarryIn(_, _, _)
CarryIn(a, b, k) ==
    IF k = 1 THEN 0 ELSE (a[k-1] + b[k-1] + CarryIn(a, b, k-1)) \div LimbBase

\* whether long a is negative
IsNegative(a) == a[NLimbs] >= LimbBase \div 2

\* an addition that clamps at the ends of the range instead of wrapping
SaturatingAdd(a, b) ==
    LET r == [k \in Limbs |-> (a[k] + b[k] + CarryIn(a, b, k)) % LimbBase]
    IN  IF IsNegative(a) = IsNegative(b) /\ IsNegative(r) # IsNegative(a)
        THEN (IF IsNegative(a) THEN LONG_MIN ELSE LONG_MAX)
        ELSE r

\* a + b as the atomic add instruction computes it: the carry out of the top
\* limb is dropped (C11 7.17.7.5: two's complement, silent wrap-around)
WrapAdd(a, b) == [k \in Limbs |-> (a[k] + b[k] + CarryIn(a, b, k)) % LimbBase]

\* exclusive or of two naturals below 2^n, bit by bit
RECURSIVE BitXor(_, _, _)
BitXor(x, y, n) ==
    IF n = 0 THEN 0
    ELSE ((x + y) % 2) + 2 * BitXor(x \div 2, y \div 2, n - 1)

\* inclusive or of two naturals below 2^n, bit by bit
RECURSIVE BitOr(_, _, _)
BitOr(x, y, n) ==
    IF n = 0 THEN 0
    ELSE (IF x % 2 = 1 \/ y % 2 = 1 THEN 1 ELSE 0)
         + 2 * BitOr(x \div 2, y \div 2, n - 1)

\* a | b on longs: what atomic_fetch_or would store
LongOr(a, b) == [k \in Limbs |-> BitOr(a[k], b[k], 16)]

\* a ^ b on longs
LongXor(a, b) == [k \in Limbs |-> BitXor(a[k], b[k], 16)]

(* ------------------------------ state ---------------------------------- *)

VARIABLES
    cell,       \* the `_Atomic long` every call is given
    other,      \* a second `_Atomic long` of the caller, given to no call
    lockFree,   \* whether the target implements the cell without a lock
    pc,         \* pc[t]: "idle", or "called" from the call to the instruction
    op,         \* op[t]: the wrapper thread t called last
    arg,        \* arg[t]: its `desired` or `operand` argument
    expected,   \* expected[t]: the caller's long that `expected` points to
    ret,        \* ret[t]: what the last call of t returned
    hist        \* the calls in the order their atomic instructions took effect

vars == <<cell, other, lockFree, pc, op, arg, expected, ret, hist>>

Threads == 1..NThreads

\* no argument / no return value (void)
None == << >>

\* the `int` a wrapper returns for the stdatomic `bool`: 1 or 0, one limb
true == <<1>>
false == <<0>>

\* the threads between their call and its instruction
Pending == {t \in Threads : pc[t] = "called"}

\* calls issued so far: the completed ones and the pending ones
Issued == Len(hist) + Cardinality(Pending)

\* the calls of thread t that have returned
Completed(t) == {i \in DOMAIN hist : hist[i].thread = t}

\* calls thread t has issued so far
IssuedBy(t) == Cardinality(Completed(t)) + (IF pc[t] = "called" THEN 1 ELSE 0)

\* the value the cell was created with
InitialValue == IF hist = << >> THEN cell ELSE hist[1].before

\* the caller owns the cell's storage and initialises it; lfs are the targets
InitWith(cells, lfs) ==
    /\ cell \in cells
    /\ other = Long(0)
    /\ lockFree \in lfs
    /\ pc = [t \in Threads |-> "idle"]
    /\ op = [t \in Threads |-> "none"]
    /\ arg = [t \in Threads |-> None]
    /\ expected = [t \in Threads |-> Long(0)]
    /\ ret = [t \in Threads |-> None]
    /\ hist = << >>

(* ------------------- the <stdatomic.h> operations ---------------------- *)
(* Each is one indivisible read-modify-write of the cell holding v, with   *)
(* memory_order_seq_cst: the new cell value and the value handed back.     *)

\* the slip of a store followed by a load: the new value is handed back
atomic_exchange_reloading(v, desired) == [cell |-> desired, ret |-> desired]

atomic_exchange(v, desired) == [cell |-> desired, ret |-> v]

\* the slip of calling atomic_fetch_add in the store wrapper
atomic_store_adding(v, desired) == [cell |-> WrapAdd(v, desired), ret |-> None]

\* a store of the low 32 bits only: the high half of the cell is left over
\* from the value before
atomic_store_low_half(v, desired) ==
    [cell |-> [k \in Limbs |-> IF k <= NLimbs \div 2 THEN desired[k] ELSE v[k]],
     ret |-> None]

\* the slip of storing the value the cell already holds
atomic_store_of_current(v, desired) == [cell |-> v, ret |-> None]

atomic_store(v, desired) == [cell |-> desired, ret |-> None]

\* the slip of calling atomic_exchange in the fetch-add wrapper
atomic_fetch_add_exchanging(v, operand) == [cell |-> operand, ret |-> v]

\* the slip of an add-fetch: the value after the addition is handed back
atomic_add_fetch(v, operand) ==
    [cell |-> WrapAdd(v, operand), ret |-> WrapAdd(v, operand)]

atomic_fetch_add(v, operand) == [cell |-> WrapAdd(v, operand), ret |-> v]

\* the slip of handing the instruction a copy of *expected: a failure leaves
\* the caller's expected value as it was
atomic_compare_exchange_strong_by_value(v, e, desired) ==
    IF v = e THEN [cell |-> desired, expected |-> e, ret |-> true]
             ELSE [cell |-> v, expected |-> e, ret |-> false]

\* the slip of refreshing *expected with the cell's value on both paths
atomic_compare_exchange_strong_refreshing(v, e, desired) ==
    IF v = e THEN [cell |-> desired, expected |-> desired, ret |-> true]
             ELSE [cell |-> v, expected |-> v, ret |-> false]

\* e is *expected; the result also holds what *expected is afterwards
atomic_compare_exchange_strong(v, e, desired) ==
    IF v = e THEN [cell |-> desired, expected |-> e, ret |-> true]
             ELSE [cell |-> v, expected |-> v, ret |-> false]

\* the slip of asking about the cell's value instead of the cell
atomic_is_lock_free_of_value(v) ==
    [cell |-> v, ret |-> IF v = Long(0) THEN false ELSE true]

atomic_is_lock_free(v) == [cell |-> v, ret |-> IF lockFree THEN true ELSE false]

atomic_fetch_xor(v, operand) == [cell |-> LongXor(v, operand), ret |-> v]

(* ------------------------- calls and returns --------------------------- *)

\* thread t calls wrapper o with argument a; for compare-exchange the caller
\* has put e into its expected variable
Call(t, o, a, e) ==
    /\ pc[t] = "idle"
    /\ pc' = [pc EXCEPT ![t] = "called"]
    /\ op' = [op EXCEPT ![t] = o]
    /\ arg' = [arg EXCEPT ![t] = a]
    /\ expected' = [expected EXCEPT ![t] = e]
    /\ UNCHANGED <<cell, other, lockFree, ret, hist>>

\* the instruction of thread t's call takes effect and the wrapper returns
Complete(t, newCell, result, newExpected) ==
    /\ pc' = [pc EXCEPT ![t] = "idle"]
    /\ cell' = newCell
    /\ ret' = [ret EXCEPT ![t] = result]
    /\ expected' = [expected EXCEPT ![t] = newExpected]
    /\ hist' = Append(hist, [thread |-> t, op |-> op[t], arg |-> arg[t],
                             exp |-> expected[t], before |-> cell,
                             after |-> newCell, ret |-> result,
                             expAfter |-> newExpected])
    /\ UNCHANGED <<other, lockFree, op, arg>>

(* ---------------------------- the wrappers ----------------------------- *)

\* an exchange made of a load and a later store: the value handed back may
\* be the one the cell held before the call that took effect last
std_atomic_exchange_load_then_store(t) ==
    /\ pc[t] = "called" /\ op[t] = "exchange"
    /\ \E v \in {cell} \cup {hist[i].before : i \in {Len(hist)} \cap DOMAIN hist} :
           Complete(t, arg[t], v, expected[t])

std_atomic_exchange(t) ==
    /\ pc[t] = "called" /\ op[t] = "exchange"
    /\ LET r == atomic_exchange(cell, arg[t])
       IN  Complete(t, r.cell, r.ret, expected[t])

std_atomic_store(t) ==
    /\ pc[t] = "called" /\ op[t] = "store"
    /\ LET r == atomic_store(cell, arg[t])
       IN  Complete(t, r.cell, r.ret, expected[t])

\* an addition made of a load and a later store: the value read may be the
\* one the cell held before the call that took effect last
std_atomic_fetch_add_load_then_store(t) ==
    /\ pc[t] = "called" /\ op[t] = "fetch_add"
    /\ \E v \in {cell} \cup {hist[i].before : i \in {Len(hist)} \cap DOMAIN hist} :
           Complete(t, WrapAdd(v, arg[t]), v, expected[t])

std_atomic_fetch_add(t) ==
    /\ pc[t] = "called" /\ op[t] = "fetch_add"
    /\ LET r == atomic_fetch_add(cell, arg[t])
       IN  Complete(t, r.cell, r.ret, expected[t])

\* a compare-exchange made of a load, a comparison and a later store: the
\* value compared may be the one the cell held before the call that took
\* effect last
std_atomic_compare_exchange_load_then_store(t) ==
    /\ pc[t] = "called" /\ op[t] = "compare_exchange_strong"
    /\ \E v \in {cell} \cup {hist[i].before : i \in {Len(hist)} \cap DOMAIN hist} :
           IF v = expected[t] THEN Complete(t, arg[t], true, expected[t])
                              ELSE Complete(t, cell, false, v)

\* a compare-exchange that retries inside the wrapper until it succeeds
std_atomic_compare_exchange_retrying(t) ==
    /\ pc[t] = "called" /\ op[t] = "compare_exchange_strong"
    /\ cell = expected[t]
    /\ Complete(t, arg[t], true, expected[t])

\* the slip of calling atomic_compare_exchange_weak, which may fail although
\* the cell holds *expected
std_atomic_compare_exchange_weak(t) ==
    /\ pc[t] = "called" /\ op[t] = "compare_exchange_strong"
    /\ \E r \in {atomic_compare_exchange_strong(cell, expected[t], arg[t]),
                 [cell |-> cell, expected |-> cell, ret |-> false]} :
           Complete(t, r.cell, r.ret, r.expected)

std_atomic_compare_exchange_strong(t) ==
    /\ pc[t] = "called" /\ op[t] = "compare_exchange_strong"
    /\ LET r == atomic_compare_exchange_strong(cell, expected[t], arg[t])
       IN  Complete(t, r.cell, r.ret, r.expected)

std_atomic_is_lock_free(t) ==
    /\ pc[t] = "called" /\ op[t] = "is_lock_free"
    /\ LET r == atomic_is_lock_free(cell)
       IN  Complete(t, r.cell, r.ret, expected[t])

\* a toggle made of a load and a later store: the value read may be the one
\* the cell held before the call that took effect last
std_atomic_fetch_xor_load_then_store(t) ==
    /\ pc[t] = "called" /\ op[t] = "fetch_xor"
    /\ \E v \in {cell} \cup {hist[i].before : i \in {Len(hist)} \cap DOMAIN hist} :
           Complete(t, LongXor(v, Long(1)), v, expected[t])

std_atomic_fetch_xor(t) ==
    /\ pc[t] = "called" /\ op[t] = "fetch_xor"
    /\ LET r == atomic_fetch_xor(cell, Long(1))
       IN  Complete(t, r.cell, r.ret, expected[t])

(* ------------------------------ callers -------------------------------- *)
(* The wrappers have no caller in the package's C target; a run is a set   *)
(* of threads issuing calls with arguments drawn from small sets.          *)

CallExchange(t, ds) == \E d \in ds : Call(t, "exchange", d, expected[t])

CallStore(t, ds) == \E d \in ds : Call(t, "store", d, expected[t])

CallFetchAdd(t, os) == \E o \in os : Call(t, "fetch_add", o, expected[t])

CallCompareExchange(t, es, ds) ==
    \E e \in es, d \in ds : Call(t, "compare_exchange_strong", d, e)

CallIsLockFree(t) == Call(t, "is_lock_free", None, expected[t])

CallFetchXor(t) == Call(t, "fetch_xor", None, expected[t])

(* Spec: every wrapper, small arguments, either kind of target *)

MixValues == {Long(0)}

Init == InitWith(MixValues, BOOLEAN)

Next ==
    \E t \in Threads :
        \/ /\ Issued < MaxCalls
           /\ \/ CallExchange(t, {Long(1)})
              \/ CallStore(t, {Long(0)})
              \/ CallFetchAdd(t, {Long(1)})
              \/ CallCompareExchange(t, {Long(0)}, {Long(1)})
              \/ CallIsLockFree(t)
              \/ CallFetchXor(t)
        \/ std_atomic_exchange(t)
        \/ std_atomic_store(t)
        \/ std_atomic_fetch_add(t)
        \/ std_atomic_compare_exchange_strong(t)
        \/ std_atomic_is_lock_free(t)
        \/ std_atomic_fetch_xor(t)

Spec == Init /\ [][Next]_vars

(* SpecCounter: every thread increments a counter that starts at 0 *)

InitCounter == InitWith({Long(0)}, {TRUE})

NextCounter ==
    \E t \in Threads :
        \/ /\ IssuedBy(t) < MaxIncrements
           /\ CallFetchAdd(t, {Long(1)})
        \/ std_atomic_fetch_add(t)

SpecCounter == InitCounter /\ [][NextCounter]_vars

(* SpecAdd: fetch-add with operands up to the ends of the range *)

AddOperands == {Long(1), Long(-1), LONG_MAX, LONG_MIN}

InitAdd == InitWith({Long(0), LONG_MAX, LONG_MIN}, {TRUE})

NextAdd ==
    \E t \in Threads :
        \/ /\ Issued < MaxCalls
           /\ CallFetchAdd(t, AddOperands)
        \/ std_atomic_fetch_add(t)

SpecAdd == InitAdd /\ [][NextAdd]_vars

(* SpecWrite: exchange and store *)

WriteValues == {Long(1), Long(-1), LONG_MIN}

InitWrite == InitWith({Long(0), LONG_MAX}, {TRUE})

NextWrite ==
    \E t \in Threads :
        \/ /\ Issued < MaxCalls
           /\ \/ CallExchange(t, WriteValues)
              \/ CallStore(t, WriteValues)
        \/ std_atomic_exchange(t)
        \/ std_atomic_store(t)

SpecWrite == InitWrite /\ [][NextWrite]_vars

(* SpecCas: exchange and compare-exchange on the values 10, 20, 30, 99 *)

InitCas == InitWith({Long(10), Long(20)}, {TRUE})

NextCas ==
    \E t \in Threads :
        \/ /\ Issued < MaxCalls
           /\ \/ CallExchange(t, {Long(20), Long(30)})
              \/ CallCompareExchange(t, {Long(10), Long(20)}, {Long(30), Long(99)})
        \/ std_atomic_exchange(t)
        \/ std_atomic_compare_exchange_strong(t)

SpecCas == InitCas /\ [][NextCas]_vars

(* SpecXor: the toggle *)

InitXor == InitWith({Long(0), Long(1), Long(-1), Long(10), LONG_MAX, LONG_MIN}, {TRUE})

NextXor ==
    \E t \in Threads :
        \/ /\ Issued < MaxCalls
           /\ CallFetchXor(t)
        \/ std_atomic_fetch_xor(t)

SpecXor == InitXor /\ [][NextXor]_vars

(* SpecLive: every wrapper, with thread 1 scheduled fairly and no assumption
   on the other threads, which may stop between a call and its instruction *)

\* thread t calls any of the wrappers
CallAny(t) ==
    \/ CallExchange(t, {Long(1)})
    \/ CallStore(t, {Long(0)})
    \/ CallFetchAdd(t, {Long(1)})
    \/ CallCompareExchange(t, {Long(0)}, {Long(1)})
    \/ CallIsLockFree(t)
    \/ CallFetchXor(t)

\* the instruction of the call thread t is in, whichever wrapper it is
Step(t) ==
    \/ std_atomic_exchange(t)
    \/ std_atomic_store(t)
    \/ std_atomic_fetch_add(t)
    \/ std_atomic_compare_exchange_strong(t)
    \/ std_atomic_is_lock_free(t)
    \/ std_atomic_fetch_xor(t)

NextLive ==
    \E t \in Threads :
        \/ /\ Issued < MaxCalls - 1
           /\ CallAny(t)
        \/ Step(t)

SpecLive == Init /\ [][NextLive]_vars /\ WF_vars(Step(1))

(* SpecWide: the five writing wrappers on values whose halves differ *)

InitWide == InitWith({LONG_MAX}, {TRUE})

NextWide ==
    \E t \in Threads :
        \/ /\ Issued < MaxCalls
           /\ \/ CallExchange(t, {Long(-1)})
              \/ CallStore(t, {Long(1)})
              \/ CallFetchAdd(t, {LONG_MIN})
              \/ CallCompareExchange(t, {LONG_MAX}, {Long(0)})
              \/ CallFetchXor(t)
        \/ std_atomic_exchange(t)
        \/ std_atomic_store(t)
        \/ std_atomic_fetch_add(t)
        \/ std_atomic_compare_exchange_strong(t)
        \/ std_atomic_fetch_xor(t)

SpecWide == InitWide /\ [][NextWide]_vars

(* SpecLoop: every thread increments the cell with the caller's retry loop:
   read the value (fetch_add of 0, the interface has no load), then
   compare-exchange(expected = value, desired = value + 1), and after a
   failure again with the refreshed expected value.  Threads are scheduled
   fairly. *)

\* a retry-loop run makes MaxCalls + 1 increments, all threads together; each
\* thread makes an equal share of them
LoopShare == (MaxCalls + 1) \div NThreads

\* the increments thread t has completed: its successful compare-exchanges
Increments(t) ==
    {i \in Completed(t) : hist[i].op = "compare_exchange_strong" /\ hist[i].ret = true}

\* t starts an increment by reading the cell
LoopRead(t) ==
    /\ pc[t] = "idle"
    /\ Cardinality(Increments(t)) < LoopShare
    /\ op[t] = "none" \/ (op[t] = "compare_exchange_strong" /\ ret[t] = true)
    /\ Call(t, "fetch_add", Long(0), expected[t])

\* t tries to replace the value it read by that value plus one
LoopTry(t) ==
    /\ pc[t] = "idle"
    /\ op[t] = "fetch_add"
    /\ Call(t, "compare_exchange_strong", WrapAdd(ret[t], Long(1)), ret[t])

\* t's attempt failed: it tries again with the value written to expected
LoopRetry(t) ==
    /\ pc[t] = "idle"
    /\ op[t] = "compare_exchange_strong" /\ ret[t] = false
    /\ Call(t, "compare_exchange_strong", WrapAdd(expected[t], Long(1)), expected[t])

\* whatever thread t does next
LoopStep(t) ==
    \/ LoopRead(t)
    \/ LoopTry(t)
    \/ LoopRetry(t)
    \/ std_atomic_fetch_add(t)
    \/ std_atomic_compare_exchange_strong(t)

InitLoop == InitWith({Long(-1)}, {TRUE})

NextLoop == \E t \in Threads : LoopStep(t)

SpecLoop ==
    InitLoop /\ [][NextLoop]_vars /\ \A t \in Threads : WF_vars(LoopStep(t))

(* SpecRead: fetch_add of 0 used as a load, among writers *)

InitRead == InitWith({Long(0), LONG_MAX}, {TRUE})

NextRead ==
    \E t \in Threads :
        \/ /\ Issued < MaxCalls
           /\ \/ CallFetchAdd(t, {Long(0), Long(1)})
              \/ CallExchange(t, {LONG_MIN})
              \/ CallStore(t, {Long(-1)})
        \/ std_atomic_fetch_add(t)
        \/ std_atomic_exchange(t)
        \/ std_atomic_store(t)

SpecRead == InitRead /\ [][NextRead]_vars

(* SpecFrame: the caller has two cells and passes either one *)

\* while no call is in flight the caller turns to its other cell: from here
\* on the calls are given what was `other`, and the cell given so far rests
SwitchCell ==
    /\ Pending = {}
    /\ cell # other
    /\ cell' = other
    /\ other' = cell
    /\ UNCHANGED <<lockFree, pc, op, arg, expected, ret, hist>>

InitFrame == InitWith({LONG_MAX}, {TRUE})

NextFrame ==
    \/ SwitchCell
    \/ \E t \in Threads :
        \/ /\ Issued < MaxCalls
           /\ \/ CallExchange(t, {Long(1)})
              \/ CallStore(t, {Long(-1)})
              \/ CallFetchAdd(t, {Long(1)})
              \/ CallCompareExchange(t, {LONG_MAX}, {Long(5)})
              \/ CallFetchXor(t)
        \/ std_atomic_exchange(t)
        \/ std_atomic_store(t)
        \/ std_atomic_fetch_add(t)
        \/ std_atomic_compare_exchange_strong(t)
        \/ std_atomic_fetch_xor(t)

SpecFrame == InitFrame /\ [][NextFrame]_vars

(* SpecToggle: every thread toggles the cell a number of times *)

InitToggle == InitWith({Long(-1)}, {TRUE})

NextToggle ==
    \E t \in Threads :
        \/ /\ IssuedBy(t) < MaxIncrements
           /\ CallFetchXor(t)
        \/ std_atomic_fetch_xor(t)

SpecToggle == InitToggle /\ [][NextToggle]_vars

(* ============================== claims ================================= *)

\* no thread is between a call and its instruction
Quiescent == Pending = {}

\* the threads that have completed at least one call
Callers == {t \in Threads : Completed(t) # {}}

\* C1: when N >= 1 threads have each completed exactly K >= 1 calls of
\* fetch_add(cell, 1) on a cell that started at 0, and no call is pending,
\* the cell holds exactly N*K, whatever the interleaving was.
C1_NoLostIncrement ==
    \A k \in 1..MaxIncrements :
        (/\ Quiescent
         /\ Callers # {}
         /\ \A t \in Callers : Cardinality(Completed(t)) = k)
        => cell = Long(Cardinality(Callers) * k)

\* every thread has made all its increments, and the threads' instructions
\* alternated at least twice
C1_Witness ==
    /\ Quiescent
    /\ \A t \in Threads : Cardinality(Completed(t)) = MaxIncrements
    /\ \E i, j \in DOMAIN hist :
          /\ i + 1 < j
          /\ hist[i].thread = hist[j].thread
          /\ hist[i+1].thread # hist[i].thread
    /\ cell = Long(NThreads * MaxIncrements)

\* the last call that took effect is the one the variables show: the cell
\* holds what it wrote, and its thread, while idle, holds what it returned
LastCallShown ==
    hist # << >> =>
        LET h == hist[Len(hist)]
        IN  /\ cell = h.after
            /\ pc[h.thread] = "idle" =>
                  /\ ret[h.thread] = h.ret
                  /\ expected[h.thread] = h.expAfter

\* compare-exchange entry h of the history follows the contract
CasContract(h) ==
    IF h.before = h.exp
    THEN h.ret = true /\ h.after = h.arg /\ h.expAfter = h.exp
    ELSE h.ret = false /\ h.after = h.before /\ h.expAfter = h.before

\* the first three calls are the scenario's: exchange(20), then
\* compare-exchange(20, 30), then compare-exchange(20, 99), from a cell of 10
IsScenario ==
    /\ Len(hist) >= 3
    /\ hist[1].before = Long(10)
    /\ hist[1].op = "exchange" /\ hist[1].arg = Long(20)
    /\ hist[2].op = "compare_exchange_strong"
    /\ hist[2].exp = Long(20) /\ hist[2].arg = Long(30)
    /\ hist[3].op = "compare_exchange_strong"
    /\ hist[3].exp = Long(20) /\ hist[3].arg = Long(99)

\* C2: every compare-exchange that found the cell equal to *expected returned
\* 1, left the cell holding desired and *expected as it was; every one that
\* found it different returned 0, left the cell as it was and *expected
\* holding the cell's value.  From a cell of 10, exchange(20) returns 10,
\* compare-exchange(20, 30) then succeeds leaving 30, and compare-exchange(20,
\* 99) then fails with *expected = 30 and the cell still 30.
C2_CompareExchangeContract ==
    /\ LastCallShown
    /\ \A i \in DOMAIN hist :
          hist[i].op = "compare_exchange_strong" => CasContract(hist[i])
    /\ IsScenario =>
          /\ hist[1].ret = Long(10) /\ hist[1].after = Long(20)
          /\ hist[2].ret = true /\ hist[2].after = Long(30)
          /\ hist[2].expAfter = Long(20)
          /\ hist[3].ret = false /\ hist[3].after = Long(30)
          /\ hist[3].expAfter = Long(30)

\* the scenario has just run to its end: the cell holds 30 and the caller's
\* expected value has been overwritten with 30
C2_Witness ==
    /\ IsScenario
    /\ Len(hist) = 3
    /\ Quiescent
    /\ cell = Long(30)
    /\ ret[hist[3].thread] = false
    /\ expected[hist[3].thread] = Long(30)

\* C3: a compare-exchange step returns 0 exactly when the cell, at that step,
\* differs from the caller's expected value; in particular it never returns 0
\* while the cell holds the expected value, whatever the other threads did.
C3_NoSpuriousFailure ==
    [][\A t \in Threads :
          (/\ pc[t] = "called"
           /\ op[t] = "compare_exchange_strong"
           /\ pc'[t] = "idle")
          => /\ ret'[t] \in {false, true}
             /\ (ret'[t] = false) <=> (cell # expected[t])]_vars

\* a compare-exchange failed because another thread's call changed the cell
\* away from the expected value just before, and one succeeded
C3_Witness ==
    /\ \E i \in DOMAIN hist :
          /\ i > 1
          /\ hist[i].op = "compare_exchange_strong"
          /\ hist[i].ret = false
          /\ hist[i-1].thread # hist[i].thread
          /\ hist[i-1].before = hist[i].exp
          /\ hist[i-1].after # hist[i].exp
    /\ \E j \in DOMAIN hist :
          hist[j].op = "compare_exchange_strong" /\ hist[j].ret = true

\* r is a long and r = a + b modulo 2^64: there are carries c, none into the
\* lowest limb, with a[k] + b[k] + c[k] = r[k] + 2^16 * c[k+1] at every limb
IsSumMod64(a, b, r) ==
    /\ \A k \in Limbs : r[k] \in 0..(LimbBase - 1)
    /\ \E c \in [1..(NLimbs + 1) -> {0, 1}] :
          /\ c[1] = 0
          /\ \A k \in Limbs : a[k] + b[k] + c[k] = r[k] + LimbBase * c[k+1]

\* C4: every fetch_add(cell, o) on a cell holding v returns v and leaves the
\* cell holding v + o modulo 2^64, a value of the signed 64-bit range:
\* LONG_MAX + 1 is LONG_MIN and LONG_MIN - 1 is LONG_MAX.  No call ends in an
\* error: a called fetch_add can always take effect and return.
C4_FetchAddWraps ==
    /\ LastCallShown
    /\ \A i \in DOMAIN hist :
          hist[i].op = "fetch_add" =>
              /\ hist[i].ret = hist[i].before
              /\ IsSumMod64(hist[i].before, hist[i].arg, hist[i].after)
              /\ (hist[i].before = LONG_MAX /\ hist[i].arg = Long(1))
                    => hist[i].after = LONG_MIN
              /\ (hist[i].before = LONG_MIN /\ hist[i].arg = Long(-1))
                    => hist[i].after = LONG_MAX
    /\ \A t \in Pending : ENABLED std_atomic_fetch_add(t)

\* additions overflowed at both ends of the range and added without overflow
C4_Witness ==
    /\ \E i \in DOMAIN hist :
          /\ hist[i].before = LONG_MAX /\ hist[i].arg = Long(1)
          /\ hist[i].after = LONG_MIN /\ hist[i].ret = LONG_MAX
    /\ \E i \in DOMAIN hist :
          /\ hist[i].before = LONG_MIN /\ hist[i].arg = Long(-1)
          /\ hist[i].after = LONG_MAX /\ hist[i].ret = LONG_MIN
    /\ \E i \in DOMAIN hist :
          /\ hist[i].before = LONG_MAX /\ hist[i].arg = Long(-1)
          /\ ~IsNegative(hist[i].after)

\* the initial value plus the operands of the first n calls of the history
RECURSIVE SumOfFirst(_)
SumOfFirst(n) ==
    IF n = 0 THEN InitialValue ELSE WrapAdd(SumOfFirst(n - 1), hist[n].arg)

\* the last call thread t completed
LastOf(t) == CHOOSE i \in Completed(t) : \A j \in Completed(t) : j <= i

\* C8: the order in which the fetch_add instructions took effect is a total
\* order of all the calls in which every call returned the initial value plus
\* the operands of the calls before it, and the cell holds the initial value
\* plus all the operands (mod 2^64); an idle thread holds what its last call
\* returned in that order.
C8_FetchAddLinearizable ==
    /\ \A i \in DOMAIN hist : hist[i].ret = SumOfFirst(i - 1)
    /\ cell = SumOfFirst(Len(hist))
    /\ \A t \in Threads \ Pending :
          Completed(t) # {} => ret[t] = hist[LastOf(t)].ret

\* all calls are done, at least two threads called, with different operands,
\* and a thread's call took effect between two calls of another
C8_Witness ==
    /\ Quiescent
    /\ Len(hist) = MaxCalls
    /\ Cardinality(Callers) >= 2
    /\ \E i, j \in DOMAIN hist : hist[i].arg # hist[j].arg
    /\ \E i \in DOMAIN hist :
          /\ i + 2 \in DOMAIN hist
          /\ hist[i].thread = hist[i+2].thread
          /\ hist[i+1].thread # hist[i].thread
    /\ cell # InitialValue

\* C5: every exchange(cell, d) on a cell holding v returned v, the value
\* present immediately before the replacement, and left the cell holding d.
C5_ExchangeReturnsPrevious ==
    /\ LastCallShown
    /\ \A i \in DOMAIN hist :
          hist[i].op = "exchange" =>
              /\ hist[i].ret = hist[i].before
              /\ hist[i].after = hist[i].arg

\* an exchange replaced a value by a different one and its thread holds the
\* replaced value
C5_Witness ==
    /\ hist # << >>
    /\ LET h == hist[Len(hist)]
       IN  /\ h.op = "exchange"
           /\ h.arg # h.before
           /\ pc[h.thread] = "idle"
           /\ ret[h.thread] = h.before
           /\ cell = h.arg
           /\ h.before = LONG_MAX

\* C7: every store(cell, d) left the cell holding d, whatever it held, and
\* returned nothing.
C7_StoreWrites ==
    /\ LastCallShown
    /\ \A i \in DOMAIN hist :
          hist[i].op = "store" =>
              /\ hist[i].after = hist[i].arg
              /\ hist[i].ret = None

\* a store has just overwritten a different value
C7_Witness ==
    /\ hist # << >>
    /\ LET h == hist[Len(hist)]
       IN  /\ h.op = "store"
           /\ h.arg # h.before
           /\ cell = h.arg
           /\ pc[h.thread] = "idle"
           /\ ret[h.thread] = None

\* every completed call is an exchange, no thread made two, and the desired
\* values are pairwise distinct
OneExchangeEach ==
    /\ Quiescent
    /\ hist # << >>
    /\ \A i \in DOMAIN hist : hist[i].op = "exchange"
    /\ \A i, j \in DOMAIN hist :
          i # j => hist[i].thread # hist[j].thread /\ hist[i].arg # hist[j].arg

\* how often x is among the values the callers hold and the cell's value
TimesOut(x) ==
    Cardinality({t \in Callers : ret[t] = x}) + (IF cell = x THEN 1 ELSE 0)

\* how often x is among the desired values and the initial value
TimesIn(x) ==
    Cardinality({i \in DOMAIN hist : hist[i].arg = x})
        + (IF InitialValue = x THEN 1 ELSE 0)

\* C9: when N threads have each made one exchange, with pairwise distinct
\* desired values, on a cell holding v, the N returned values and the final
\* cell value are v and the N desired values, each as often as it went in: no
\* value is returned twice and none is lost.
C9_ExchangeIndivisible ==
    OneExchangeEach =>
        \A x \in {InitialValue, cell} \cup {hist[i].arg : i \in DOMAIN hist}
                 \cup {ret[t] : t \in Callers} :
            TimesOut(x) = TimesIn(x)

\* every thread has made its one exchange, and the values that came out are
\* all different
C9_Witness ==
    /\ OneExchangeEach
    /\ Callers = Threads
    /\ \A t, u \in Threads : t # u => ret[t] # ret[u]
    /\ \A t \in Threads : ret[t] # cell
    /\ \E t \in Threads : ret[t] # InitialValue

\* C6: every fetch_xor(cell) on a cell holding v returned v and left the cell
\* holding v with its lowest bit flipped and every other bit as it was; the
\* call has no operand.
C6_FetchXorToggles ==
    /\ LastCallShown
    /\ \A i \in DOMAIN hist :
          hist[i].op = "fetch_xor" =>
              /\ hist[i].arg = None
              /\ hist[i].ret = hist[i].before
              /\ \A k \in Limbs \ {1} : hist[i].after[k] = hist[i].before[k]
              /\ hist[i].after[1] \div 2 = hist[i].before[1] \div 2
              /\ hist[i].after[1] % 2 = 1 - (hist[i].before[1] % 2)

\* a set lowest bit was cleared and a clear one set, on a negative value
C6_Witness ==
    /\ \E i \in DOMAIN hist :
          /\ hist[i].op = "fetch_xor"
          /\ hist[i].before = Long(-1)
          /\ hist[i].after = Long(-2)
    /\ \E i \in DOMAIN hist :
          /\ hist[i].op = "fetch_xor"
          /\ hist[i].before = Long(-2)
          /\ hist[i].after = Long(-1)
          /\ hist[i].ret = Long(-2)

\* C10: every is_lock_free call left the cell and the caller's expected value
\* as they were and returned 0 or 1 (false or true); all the is_lock_free calls of a run
\* returned the same answer, whatever calls took effect between them; a
\* called is_lock_free can always return.
C10_LockFreeQueryStable ==
    /\ LastCallShown
    /\ \A i \in DOMAIN hist :
          hist[i].op = "is_lock_free" =>
              /\ hist[i].after = hist[i].before
              /\ hist[i].expAfter = hist[i].exp
              /\ hist[i].ret \in {false, true}
              /\ \A j \in DOMAIN hist :
                    hist[j].op = "is_lock_free" => hist[j].ret = hist[i].ret
    /\ \A t \in Pending :
          op[t] = "is_lock_free" => ENABLED std_atomic_is_lock_free(t)

\* two threads asked, and between their calls another call changed the cell
C10_Witness ==
    \E i \in DOMAIN hist :
        /\ i + 2 \in DOMAIN hist
        /\ hist[i].op = "is_lock_free"
        /\ hist[i+2].op = "is_lock_free"
        /\ hist[i+2].thread # hist[i].thread
        /\ hist[i+1].after # hist[i+1].before
        /\ hist[i+2].ret = hist[i].ret
        /\ cell # InitialValue

\* long v with its lowest bit flipped
Toggled(v) == [v EXCEPT ![1] = IF v[1] % 2 = 0 THEN v[1] + 1 ELSE v[1] - 1]

\* the completed calls that returned x
Returning(x) == {i \in DOMAIN hist : hist[i].ret = x}

\* C11: when N threads have each completed K fetch_xor calls on a cell that
\* held v, and no call is pending, the cell holds v if N*K is even and v with
\* its lowest bit flipped if N*K is odd, and the calls that returned v are as
\* many as the calls that returned the flipped value, or one more: no toggle
\* is lost, whatever the interleaving was.
C11_NoLostToggle ==
    \A k \in 1..MaxIncrements :
        (/\ Quiescent
         /\ Callers # {}
         /\ \A t \in Callers : Cardinality(Completed(t)) = k)
        => LET n == Cardinality(Callers) * k
               v == InitialValue
           IN  /\ Len(hist) = n
               /\ cell = IF n % 2 = 0 THEN v ELSE Toggled(v)
               /\ Cardinality(Returning(v)) + Cardinality(Returning(Toggled(v))) = n
               /\ Cardinality(Returning(v)) - Cardinality(Returning(Toggled(v)))
                     = n % 2
               /\ \A t \in Callers : ret[t] = hist[LastOf(t)].ret

\* every thread has made all its toggles, the threads' instructions
\* alternated, and both values were returned
C11_Witness ==
    /\ Quiescent
    /\ \A t \in Threads : Cardinality(Completed(t)) = MaxIncrements
    /\ \E i \in DOMAIN hist :
          /\ i + 2 \in DOMAIN hist
          /\ hist[i].thread = hist[i+2].thread
          /\ hist[i+1].thread # hist[i].thread
    /\ Returning(InitialValue) # {}
    /\ Returning(Toggled(InitialValue)) # {}
    /\ InitialValue = Long(-1)

\* what call h does when it runs alone on a cell holding v: the cell, the
\* returned value and the caller's expected value afterwards
Alone(v, h) ==
    CASE h.op = "exchange" -> [cell |-> h.arg, ret |-> v, exp |-> h.exp]
      [] h.op = "store" -> [cell |-> h.arg, ret |-> None, exp |-> h.exp]
      [] h.op = "fetch_add" -> [cell |-> WrapAdd(v, h.arg), ret |-> v, exp |-> h.exp]
      [] h.op = "compare_exchange_strong" ->
            IF v = h.exp THEN [cell |-> h.arg, ret |-> true, exp |-> h.exp]
                         ELSE [cell |-> v, ret |-> false, exp |-> v]
      [] h.op = "is_lock_free" ->
            [cell |-> v, ret |-> IF lockFree THEN true ELSE false, exp |-> h.exp]
      [] h.op = "fetch_xor" -> [cell |-> Toggled(v), ret |-> v, exp |-> h.exp]

\* the cell after the first n calls of the history have run one at a time
RECURSIVE CellAfter(_)
CellAfter(n) ==
    IF n = 0 THEN InitialValue ELSE Alone(CellAfter(n - 1), hist[n]).cell

\* C12: the order in which the instructions took effect is one total order
\* of all the calls such that running the calls one at a time in that order
\* yields every returned value, every compare-exchange outcome with its
\* expected value, and the cell's value; it respects program order: the last
\* call of an idle thread in that order is the call the thread made last.
C12_SequentiallyConsistent ==
    /\ \A i \in DOMAIN hist :
          LET r == Alone(CellAfter(i - 1), hist[i])
          IN  /\ hist[i].ret = r.ret
              /\ hist[i].expAfter = r.exp
    /\ cell = CellAfter(Len(hist))
    /\ \A t \in Callers \ Pending :
          LET h == hist[LastOf(t)]
          IN  /\ h.op = op[t] /\ h.arg = arg[t]
              /\ ret[t] = h.ret /\ expected[t] = h.expAfter

\* all calls are done; two threads' calls alternated, three different
\* wrappers were called, one a compare-exchange, and the cell changed
C12_Witness ==
    /\ Quiescent
    /\ Len(hist) = MaxCalls
    /\ \E i \in DOMAIN hist :
          /\ i + 2 \in DOMAIN hist
          /\ hist[i].thread = hist[i+2].thread
          /\ hist[i+1].thread # hist[i].thread
    /\ Cardinality({hist[i].op : i \in DOMAIN hist}) >= 3
    /\ \E i \in DOMAIN hist : hist[i].op = "compare_exchange_strong"
    /\ cell # InitialValue

Held(n) == {InitialValue} \cup {hist[i].after : i \in 1..n}

\* the value call i of the history left in the cell was produced whole by
\* that call from its argument or from a value the cell held before
ProducedWhole(i) ==
    LET h == hist[i]
    IN  CASE h.op \in {"exchange", "store"} -> h.after = h.arg
          [] h.op = "compare_exchange_strong" ->
                IF h.ret = true THEN h.after = h.arg ELSE h.after \in Held(i - 1)
          [] h.op = "fetch_add" ->
                \E w \in Held(i - 1) : IsSumMod64(w, h.arg, h.after)
          [] h.op = "fetch_xor" ->
                \E w \in Held(i - 1) : h.after = Toggled(w)
          [] h.op = "is_lock_free" -> h.after \in Held(i - 1)

\* the long that call i of the history handed to its caller, by return or
\* through the expected reference, is a value the cell held before
HandedBackWhole(i) ==
    LET h == hist[i]
    IN  /\ h.op \in {"exchange", "fetch_add", "fetch_xor"}
              => h.ret \in Held(i - 1)
        /\ (h.op = "compare_exchange_strong" /\ h.ret = false)
              => h.expAfter \in Held(i - 1)

\* C14: in every reachable state the cell holds its initial value or a value
\* one call produced whole (the desired value of a store, an exchange or a
\* successful compare-exchange, or the sum or toggle of a value held before),
\* and every long returned or written back to an expected reference is a
\* value the cell held before: never a mixture of two values.
C14_NoTornValue ==
    /\ cell \in Held(Len(hist))
    /\ \A i \in DOMAIN hist : ProducedWhole(i) /\ HandedBackWhole(i)
    /\ \A t \in Callers \ Pending :
          LET h == hist[LastOf(t)]
          IN  /\ ret[t] = h.ret
              /\ expected[t] = h.expAfter

\* a store has overwritten a value whose two halves both differ from the
\* stored value's, and a later call of another thread returned the stored
\* value
C14_Witness ==
    \E i \in DOMAIN hist :
        /\ hist[i].op = "store"
        /\ hist[i].before[1] # hist[i].arg[1]
        /\ hist[i].before[NLimbs] # hist[i].arg[NLimbs]
        /\ i + 1 \in DOMAIN hist
        /\ hist[i+1].thread # hist[i].thread
        /\ hist[i+1].op \in {"exchange", "fetch_add", "fetch_xor"}
        /\ hist[i+1].ret = hist[i].arg

\* what a caller of store(cell, d) would run instead: exchange(cell, d) with
\* the returned value thrown away
ExchangeDiscarding(t) ==
    /\ pc[t] = "called" /\ op[t] = "store"
    /\ LET r == atomic_exchange(cell, arg[t])
       IN  Complete(t, r.cell, None, expected[t])

\* the exchange-and-store run with every store replaced in that way
NextWriteReplaced ==
    \E t \in Threads :
        \/ /\ Issued < MaxCalls
           /\ \/ CallExchange(t, WriteValues)
              \/ CallStore(t, WriteValues)
        \/ std_atomic_exchange(t)
        \/ ExchangeDiscarding(t)

\* C15: every step of a run of exchange and store calls is a step of the run
\* in which each store(cell, d) is replaced by exchange(cell, d) with its
\* result ignored, and a store can take effect exactly when the replacement
\* can: the cell goes through the same values and every other call returns
\* the same.
C15_StoreIsExchangeDiscarding ==
    /\ [][NextWriteReplaced]_vars
    /\ [](\A t \in Threads :
             (ENABLED std_atomic_store(t)) <=> (ENABLED ExchangeDiscarding(t)))

\* a store overwrote a different value and an exchange of another thread
\* then returned the stored value
C15_Witness ==
    \E i \in DOMAIN hist :
        /\ hist[i].op = "store"
        /\ hist[i].before # hist[i].arg
        /\ i + 1 \in DOMAIN hist
        /\ hist[i+1].op = "exchange"
        /\ hist[i+1].thread # hist[i].thread
        /\ hist[i+1].ret = hist[i].arg
        /\ ret[hist[i].thread] = None

\* the compare-exchange calls of the history that failed
FailedAttempts ==
    {i \in DOMAIN hist : hist[i].op = "compare_exchange_strong" /\ hist[i].ret = false}

\* the call thread hist[i].thread completed last before call i: the read or
\* the failed attempt that gave it the expected value of call i
SourceOf(i) ==
    CHOOSE j \in Completed(hist[i].thread) :
        /\ j < i
        /\ \A k \in Completed(hist[i].thread) : k < i => k <= j

\* every thread has left its loop
AllLoopsDone ==
    /\ Quiescent
    /\ \A t \in Threads : Cardinality(Increments(t)) = LoopShare

\* the increments completed so far, all threads together
AllIncrements == UNION {Increments(t) : t \in Threads}

\* C16: with every thread incrementing the cell K times by the retry loop,
\* the cell always holds the initial value plus the number of completed
\* increments, and initial + N*K when all loops are done; a compare-exchange
\* of a loop fails only if, since its thread obtained the expected value,
\* another thread completed an increment (so some thread makes progress in
\* every round of contention); and under fair scheduling every loop exits.
C16_RetryLoopIncrements ==
    /\ [](/\ cell = WrapAdd(InitialValue, Long(Cardinality(AllIncrements)))
          /\ AllLoopsDone =>
                cell = WrapAdd(InitialValue, Long(NThreads * LoopShare))
          /\ \A i \in FailedAttempts :
                /\ hist[i].expAfter = hist[i].before
                /\ \E m \in (SourceOf(i) + 1)..(i - 1) :
                      /\ hist[m].thread # hist[i].thread
                      /\ m \in AllIncrements
                      /\ hist[m].after # hist[i].exp)
    /\ <>[]AllLoopsDone

\* all loops are done, an attempt failed on the way and its thread's retry
\* succeeded, and the cell holds the initial value plus N*K
C16_Witness ==
    /\ AllLoopsDone
    /\ \E i \in FailedAttempts :
          \E j \in Increments(hist[i].thread) :
              j > i /\ hist[j].exp = hist[i].expAfter
    /\ cell = WrapAdd(InitialValue, Long(NThreads * LoopShare))
    /\ Cardinality(AllIncrements) >= 2

\* the calls so far are a race: each is a compare-exchange expecting the
\* value the cell started with and desiring another one, no thread made two,
\* and no call is pending
IsRace ==
    /\ Quiescent
    /\ Len(hist) >= 2
    /\ \A i \in DOMAIN hist :
          /\ hist[i].op = "compare_exchange_strong"
          /\ hist[i].exp = InitialValue
          /\ hist[i].arg # InitialValue
    /\ \A i, j \in DOMAIN hist : i # j => hist[i].thread # hist[j].thread

\* the calls of the history that reported success
Winners == {i \in DOMAIN hist : hist[i].ret = true}

\* C17: when the cell holds e and several threads each call compare-exchange
\* with expected = e and desired values different from e, and nothing else
\* runs, exactly one call reports success; every other call reports failure
\* and leaves its caller's expected value equal to the winner's desired
\* value, which is also the cell's final value.
C17_OneWinner ==
    IsRace =>
        /\ Cardinality(Winners) = 1
        /\ \A w \in Winners :
              /\ cell = hist[w].arg
              /\ ret[hist[w].thread] = true
              /\ expected[hist[w].thread] = InitialValue
              /\ \A i \in DOMAIN hist \ {w} :
                    /\ hist[i].ret = false
                    /\ ret[hist[i].thread] = false
                    /\ expected[hist[i].thread] = hist[w].arg

\* every thread has raced, with desired values differing between a loser and
\* the winner
C17_Witness ==
    /\ IsRace
    /\ Callers = Threads
    /\ \E w \in Winners :
          \E i \in DOMAIN hist \ {w} :
              /\ hist[i].arg # hist[w].arg
              /\ expected[hist[i].thread] = hist[w].arg
              /\ cell = hist[w].arg

\* thread t's call fetch_add(cell, 0) takes effect and returns in this step
ReadStep(t) ==
    /\ pc[t] = "called" /\ op[t] = "fetch_add" /\ arg[t] = Long(0)
    /\ pc'[t] = "idle"

\* C18: a call fetch_add(cell, 0) is an atomic read: the step in which it
\* takes effect, which lies between its call and its return, hands back the
\* value the cell holds at that step and leaves the cell holding it; the
\* step changes nothing of any other thread, pending or idle.
C18_FetchAddZeroIsLoad ==
    [][\A t \in Threads :
          ReadStep(t) =>
              /\ ret'[t] = cell
              /\ cell' = cell
              /\ expected' = expected
              /\ \A u \in Threads \ {t} :
                    /\ pc'[u] = pc[u] /\ op'[u] = op[u] /\ arg'[u] = arg[u]
                    /\ ret'[u] = ret[u]]_vars

\* a read returned a value another thread had written after the start, and
\* the call of another thread that took effect next found that same value
C18_Witness ==
    \E i \in DOMAIN hist :
        /\ i > 1 /\ i + 1 \in DOMAIN hist
        /\ hist[i].op = "fetch_add" /\ hist[i].arg = Long(0)
        /\ hist[i].ret # InitialValue
        /\ hist[i].ret = hist[i-1].after
        /\ hist[i-1].thread # hist[i].thread
        /\ hist[i+1].thread # hist[i].thread
        /\ hist[i+1].before = hist[i].ret
        /\ hist[i+1].after # hist[i+1].before

\* thread t's call takes effect and returns in this step
EffectStep(t) == pc[t] = "called" /\ pc'[t] = "idle"

\* C19: a call changes only the cell it is given: its step leaves the
\* caller's other cell and every other thread's expected long unchanged;
\* exchange, store, fetch-add and fetch-xor leave the calling thread's
\* expected long unchanged too; compare-exchange changes the cell only when
\* it returns true and the calling thread's expected long only when it
\* returns false, never both.
C19_OnlyTheGivenCell ==
    [][\A t \in Threads :
          EffectStep(t) =>
              /\ other' = other
              /\ \A u \in Threads \ {t} : expected'[u] = expected[u]
              /\ op[t] \in {"exchange", "store", "fetch_add", "fetch_xor"}
                    => expected'[t] = expected[t]
              /\ op[t] = "compare_exchange_strong" =>
                    /\ ret'[t] \in {false, true}
                    /\ cell' # cell => ret'[t] = true
                    /\ expected'[t] # expected[t] => ret'[t] = false
                    /\ ~ (cell' # cell /\ expected'[t] # expected[t])]_vars

\* a compare-exchange succeeded on one cell and one of another thread failed
\* on the caller's other cell, which rests holding what the first one wrote
C19_Witness ==
    \E i, j \in DOMAIN hist :
        /\ i < j
        /\ hist[i].thread # hist[j].thread
        /\ hist[i].op = "compare_exchange_strong" /\ hist[i].ret = true
        /\ hist[i].after # hist[i].before
        /\ hist[j].op = "compare_exchange_strong" /\ hist[j].ret = false
        /\ hist[j].expAfter # hist[j].exp
        /\ hist[j].before # hist[i].after
        /\ other = hist[i].after
        /\ cell = hist[j].before

====
